---- MODULE Spec2Model ----
(***************************************************************************)
(* Atomic chess rules engine (class ChessVar of src/ChessVar.py).          *)
(*                                                                         *)
(* The state of a game is the 8x8 board of one-character cells, the side   *)
(* to move and the game state.  The only operation that changes it is      *)
(* make_move(from_position, to_position); every helper it calls is a       *)
(* pure operator here that takes the object ("self") as a record.          *)
(*                                                                         *)
(* A Python string is a sequence of one-character strings: "e2" is         *)
(* <<"e", "2">>.  Two characters outside ASCII are written by their code   *)
(* point: "U+00B2" (SUPERSCRIPT TWO) and "U+0663" (ARABIC-INDIC DIGIT      *)
(* THREE); str.isdigit() accepts both, int() accepts only the second.      *)
(***************************************************************************)
EXTENDS Integers, Sequences, FiniteSets, TLC

VARIABLES
    board,                \* self._board: row 0..7 -> column 0..7 -> cell
    turn,                 \* self._turn: "white" or "black"
    current_game_state,   \* self._current_game_state
    ret,                  \* outcome of the last make_move call
    old,                  \* board, turn and game state when that call began
    moved                 \* <<from, to>> of that call if it returned True

vars == <<board, turn, current_game_state, ret, old, moved>>

----------------------------------------------------------------------------
(* Cells and characters                                                    *)

Rows == 0..7
Cols == 0..7

WhitePieces == {"P", "R", "N", "B", "Q", "K"}
BlackPieces == {"p", "r", "n", "b", "q", "k"}
Cells == WhitePieces \cup BlackPieces \cup {"."}

isupper(x) == x \in WhitePieces
islower(x) == x \in BlackPieces

upper(x) ==
    CASE x = "p" -> "P" [] x = "r" -> "R" [] x = "n" -> "N"
      [] x = "b" -> "B" [] x = "q" -> "Q" [] x = "k" -> "K"
      [] OTHER -> x

lower(x) ==
    CASE x = "P" -> "p" [] x = "R" -> "r" [] x = "N" -> "n"
      [] x = "B" -> "b" [] x = "Q" -> "q" [] x = "K" -> "k"
      [] OTHER -> x

abs(n) == IF n < 0 THEN -n ELSE n

\* self._columns and self._columns_indexes
columns == <<"a", "b", "c", "d", "e", "f", "g", "h">>
ColumnLetters == { columns[x] : x \in 1..Len(columns) }
columns_indexes ==
    [col \in ColumnLetters |-> (CHOOSE x \in 1..Len(columns) : columns[x] = col) - 1]

AsciiDigits == <<"0", "1", "2", "3", "4", "5", "6", "7", "8", "9">>

\* str.isdigit(): the ASCII digits and the digit characters outside ASCII
DigitChars == { AsciiDigits[i] : i \in 1..Len(AsciiDigits) } \cup {"U+00B2", "U+0663"}
isdigit(ch) == ch \in DigitChars

\* int(ch) raises ValueError on a digit character that is not a decimal
int_raises(ch) == ch = "U+00B2"

DigitValue ==
    [ch \in { AsciiDigits[i] : i \in 1..Len(AsciiDigits) } |->
        (CHOOSE i \in 1..Len(AsciiDigits) : AsciiDigits[i] = ch) - 1]

int(ch) ==
    IF ch = "U+0663" THEN 3
    ELSE DigitValue[ch]

\* initialize_board
special_pieces == <<"R", "N", "B", "Q", "K", "B", "N", "R">>

initialize_board ==
    [r \in Rows |->
        [c \in Cols |->
            CASE r = 0 -> lower(special_pieces[c + 1])
              [] r = 1 -> "p"
              [] r = 6 -> "P"
              [] r = 7 -> special_pieces[c + 1]
              [] OTHER -> "."]]

----------------------------------------------------------------------------
(* position_index: <<>> stands for (None, None), <<row, col>> for a square *)

position_index_raises(position) ==
    /\ ~(\/ Len(position) # 2
         \/ position[1] \notin ColumnLetters
         \/ ~isdigit(position[2]))
    /\ int_raises(position[2])

position_index(position) ==
    IF \/ Len(position) # 2
       \/ position[1] \notin ColumnLetters
       \/ ~isdigit(position[2])
    THEN <<>>
    ELSE LET col == position[1]
             row == position[2]
             col_index == columns_indexes[col]
             row_index == 8 - int(row)
         IN  IF ~(0 <= col_index /\ col_index < 8 /\ 0 <= row_index /\ row_index < 8)
             THEN <<>>
             ELSE <<row_index, col_index>>

----------------------------------------------------------------------------
(* clear_path: the walk from the square after from_position up to, and not *)
(* including, to_position                                                  *)

RECURSIVE clear_path_walk(_, _, _, _, _, _, _)
clear_path_walk(self, current_row, current_col, to_row, to_col, row_step, col_step) ==
    IF current_row # to_row \/ current_col # to_col
    THEN IF self.board[current_row][current_col] # "."
         THEN FALSE
         ELSE clear_path_walk(self, current_row + row_step, current_col + col_step,
                              to_row, to_col, row_step, col_step)
    ELSE TRUE

\* clear_path as it would be if only the first square of the walk were tested
clear_path_first_square_only(self, from_position, to_position) ==
    LET from_row == position_index(from_position)[1]
        from_col == position_index(from_position)[2]
        to_row == position_index(to_position)[1]
        to_col == position_index(to_position)[2]
        row_step == IF from_row = to_row THEN 0 ELSE (IF to_row > from_row THEN 1 ELSE -1)
        col_step == IF from_col = to_col THEN 0 ELSE (IF to_col > from_col THEN 1 ELSE -1)
        current_row == from_row + row_step
        current_col == from_col + col_step
    IN  IF current_row # to_row \/ current_col # to_col
        THEN self.board[current_row][current_col] = "."
        ELSE TRUE

clear_path(self, from_position, to_position) ==
    LET from_row == position_index(from_position)[1]
        from_col == position_index(from_position)[2]
        to_row == position_index(to_position)[1]
        to_col == position_index(to_position)[2]
        row_step == IF from_row = to_row THEN 0 ELSE (IF to_row > from_row THEN 1 ELSE -1)
        col_step == IF from_col = to_col THEN 0 ELSE (IF to_col > from_col THEN 1 ELSE -1)
    IN  clear_path_walk(self, from_row + row_step, from_col + col_step,
                        to_row, to_col, row_step, col_step)

----------------------------------------------------------------------------
(* Per-piece movement rules                                                *)

\* pawn_move as it would be if the double step did not look at the square it passes
pawn_move_jumps(self, from_row, from_col, to_row, to_col) ==
    LET piece == self.board[from_row][from_col]
        direction == IF isupper(piece) THEN -1 ELSE 1
        start_row == IF isupper(piece) THEN 6 ELSE 1
        opponent_piece(x) == IF isupper(piece) THEN islower(x) ELSE isupper(x)
    IN  IF to_col = from_col
        THEN \/ /\ to_row = from_row + direction
                /\ self.board[to_row][to_col] = "."
             \/ /\ from_row = start_row
                /\ to_row = from_row + 2 * direction
                /\ self.board[to_row][to_col] = "."
        ELSE /\ abs(to_col - from_col) = 1
             /\ to_row = from_row + direction
             /\ self.board[to_row][to_col] # "."
             /\ opponent_piece(self.board[to_row][to_col])

pawn_move(self, from_row, from_col, to_row, to_col) ==
    LET piece == self.board[from_row][from_col]
        direction == IF isupper(piece) THEN -1 ELSE 1
        start_row == IF isupper(piece) THEN 6 ELSE 1
        opponent_piece(x) == IF isupper(piece) THEN islower(x) ELSE isupper(x)
    IN  IF to_col = from_col
        THEN \/ /\ to_row = from_row + direction
                /\ self.board[to_row][to_col] = "."
             \/ /\ from_row = start_row
                /\ to_row = from_row + 2 * direction
                /\ self.board[from_row + direction][to_col] = "."
                /\ self.board[to_row][to_col] = "."
        ELSE /\ abs(to_col - from_col) = 1
             /\ to_row = from_row + direction
             /\ self.board[to_row][to_col] # "."
             /\ opponent_piece(self.board[to_row][to_col])

rook_move(self, from_position, to_position) ==
    LET from_row == position_index(from_position)[1]
        from_col == position_index(from_position)[2]
        to_row == position_index(to_position)[1]
        to_col == position_index(to_position)[2]
    IN  IF from_row = to_row \/ from_col = to_col
        THEN clear_path(self, from_position, to_position)
        ELSE FALSE

\* knight_move as it would be if a piece next to the Knight on its long leg blocked it
knight_move_blocked(self, from_position, to_position) ==
    LET from_row == position_index(from_position)[1]
        from_col == position_index(from_position)[2]
        to_row == position_index(to_position)[1]
        to_col == position_index(to_position)[2]
        row_diff == abs(to_row - from_row)
        col_diff == abs(to_col - from_col)
        leg_row == IF row_diff = 2 THEN (from_row + to_row) \div 2 ELSE from_row
        leg_col == IF col_diff = 2 THEN (from_col + to_col) \div 2 ELSE from_col
    IN  /\ <<row_diff, col_diff>> \in {<<2, 1>>, <<1, 2>>}
        /\ self.board[leg_row][leg_col] = "."

knight_move(self, from_position, to_position) ==
    LET from_row == position_index(from_position)[1]
        from_col == position_index(from_position)[2]
        to_row == position_index(to_position)[1]
        to_col == position_index(to_position)[2]
        row_diff == abs(to_row - from_row)
        col_diff == abs(to_col - from_col)
    IN  <<row_diff, col_diff>> \in {<<2, 1>>, <<1, 2>>}

bishop_move(self, from_position, to_position) ==
    LET from_row == position_index(from_position)[1]
        from_col == position_index(from_position)[2]
        to_row == position_index(to_position)[1]
        to_col == position_index(to_position)[2]
    IN  IF abs(to_row - from_row) = abs(to_col - from_col)
        THEN clear_path(self, from_position, to_position)
        ELSE FALSE

queen_move(self, from_position, to_position) ==
    rook_move(self, from_position, to_position)
        \/ bishop_move(self, from_position, to_position)

king_move(self, from_position, to_position) ==
    LET from_row == position_index(from_position)[1]
        from_col == position_index(from_position)[2]
        to_row == position_index(to_position)[1]
        to_col == position_index(to_position)[2]
    IN  abs(to_row - from_row) <= 1 /\ abs(to_col - from_col) <= 1

----------------------------------------------------------------------------
(* valid_move                                                              *)

\* valid_move as it would be without the test of the target's colour (lines 144-145)
valid_move_ignores_target(self, from_position, to_position) ==
    LET from_sq == position_index(from_position)
        to_sq == position_index(to_position)
    IN  IF from_sq = <<>> \/ to_sq = <<>>
        THEN FALSE
        ELSE
          LET from_row == from_sq[1]
              from_col == from_sq[2]
              to_row == to_sq[1]
              to_col == to_sq[2]
              piece == self.board[from_row][from_col]
              piece_type == upper(piece)
          IN  IF piece = "."
              THEN FALSE
              ELSE IF \/ (self.turn = "white" /\ islower(piece))
                      \/ (self.turn = "black" /\ isupper(piece))
              THEN FALSE
              ELSE CASE piece_type = "P" ->
                            pawn_move(self, from_row, from_col, to_row, to_col)
                     [] piece_type = "R" -> rook_move(self, from_position, to_position)
                     [] piece_type = "N" -> knight_move(self, from_position, to_position)
                     [] piece_type = "B" -> bishop_move(self, from_position, to_position)
                     [] piece_type = "Q" -> queen_move(self, from_position, to_position)
                     [] piece_type = "K" -> king_move(self, from_position, to_position)
                     [] OTHER -> FALSE

\* valid_move as it would be without the turn check of lines 141-142
valid_move_ignores_turn(self, from_position, to_position) ==
    LET from_sq == position_index(from_position)
        to_sq == position_index(to_position)
    IN  IF from_sq = <<>> \/ to_sq = <<>>
        THEN FALSE
        ELSE
          LET from_row == from_sq[1]
              from_col == from_sq[2]
              to_row == to_sq[1]
              to_col == to_sq[2]
              piece == self.board[from_row][from_col]
              target == self.board[to_row][to_col]
              piece_type == upper(piece)
          IN  IF piece = "."
              THEN FALSE
              ELSE IF \/ (self.turn = "white" /\ isupper(target))
                      \/ (self.turn = "black" /\ islower(target))
              THEN FALSE
              ELSE CASE piece_type = "P" ->
                            pawn_move(self, from_row, from_col, to_row, to_col)
                     [] piece_type = "R" -> rook_move(self, from_position, to_position)
                     [] piece_type = "N" -> knight_move(self, from_position, to_position)
                     [] piece_type = "B" -> bishop_move(self, from_position, to_position)
                     [] piece_type = "Q" -> queen_move(self, from_position, to_position)
                     [] piece_type = "K" -> king_move(self, from_position, to_position)
                     [] OTHER -> FALSE

valid_move(self, from_position, to_position) ==
    LET from_sq == position_index(from_position)
        to_sq == position_index(to_position)
    IN  IF from_sq = <<>> \/ to_sq = <<>>
        THEN FALSE
        ELSE
          LET from_row == from_sq[1]
              from_col == from_sq[2]
              to_row == to_sq[1]
              to_col == to_sq[2]
              piece == self.board[from_row][from_col]
              target == self.board[to_row][to_col]
              piece_type == upper(piece)
          IN  IF piece = "."
              THEN FALSE
              ELSE IF \/ (self.turn = "white" /\ islower(piece))
                      \/ (self.turn = "black" /\ isupper(piece))
              THEN FALSE
              ELSE IF \/ (self.turn = "white" /\ isupper(target))
                      \/ (self.turn = "black" /\ islower(target))
              THEN FALSE
              ELSE CASE piece_type = "P" ->
                            pawn_move(self, from_row, from_col, to_row, to_col)
                     [] piece_type = "R" -> rook_move(self, from_position, to_position)
                     [] piece_type = "N" -> knight_move(self, from_position, to_position)
                     [] piece_type = "B" -> bishop_move(self, from_position, to_position)
                     [] piece_type = "Q" -> queen_move(self, from_position, to_position)
                     [] piece_type = "K" -> king_move(self, from_position, to_position)
                     [] OTHER -> FALSE

----------------------------------------------------------------------------
(* The calls of clear_path that valid_move makes, and the squares each call *)
(* reads.  A Python list of 8 items accepts the indexes -8..7 (a negative   *)
(* one counts from the end) and raises IndexError on any other.             *)

list_index_ok(i) == -8 <= i /\ i <= 7

\* self._board[row][col] for indexes the two lists accept
board_item(self, row, col) == self.board[row % 8][col % 8]

\* the pairs (current_row, current_col) at which line 52 indexes the board, in
\* order: the walk stops after a read that raises IndexError or finds a piece
RECURSIVE clear_path_reads_walk(_, _, _, _, _, _, _)
clear_path_reads_walk(self, current_row, current_col, to_row, to_col, row_step, col_step) ==
    IF current_row # to_row \/ current_col # to_col
    THEN IF ~list_index_ok(current_row) \/ ~list_index_ok(current_col)
         THEN << <<current_row, current_col>> >>
         ELSE IF board_item(self, current_row, current_col) # "."
         THEN << <<current_row, current_col>> >>
         ELSE << <<current_row, current_col>> >>
                 \o clear_path_reads_walk(self, current_row + row_step, current_col + col_step,
                                          to_row, to_col, row_step, col_step)
    ELSE << >>

clear_path_reads(self, from_position, to_position) ==
    LET from_row == position_index(from_position)[1]
        from_col == position_index(from_position)[2]
        to_row == position_index(to_position)[1]
        to_col == position_index(to_position)[2]
        row_step == IF from_row = to_row THEN 0 ELSE (IF to_row > from_row THEN 1 ELSE -1)
        col_step == IF from_col = to_col THEN 0 ELSE (IF to_col > from_col THEN 1 ELSE -1)
    IN  clear_path_reads_walk(self, from_row + row_step, from_col + col_step,
                              to_row, to_col, row_step, col_step)

\* rook_move_calls as it would be if rook_move called clear_path without its test
rook_move_calls_unaligned(self, from_position, to_position) ==
    { <<from_position, to_position>> }

\* the calls of clear_path made by rook_move (line 93)
rook_move_calls(self, from_position, to_position) ==
    LET from_row == position_index(from_position)[1]
        from_col == position_index(from_position)[2]
        to_row == position_index(to_position)[1]
        to_col == position_index(to_position)[2]
    IN  IF from_row = to_row \/ from_col = to_col
        THEN { <<from_position, to_position>> }
        ELSE {}

\* the calls of clear_path made by bishop_move (line 112)
bishop_move_calls(self, from_position, to_position) ==
    LET from_row == position_index(from_position)[1]
        from_col == position_index(from_position)[2]
        to_row == position_index(to_position)[1]
        to_col == position_index(to_position)[2]
    IN  IF abs(to_row - from_row) = abs(to_col - from_col)
        THEN { <<from_position, to_position>> }
        ELSE {}

\* the calls made by queen_move: 'or' calls bishop_move only if rook_move is false
queen_move_calls(self, from_position, to_position) ==
    rook_move_calls(self, from_position, to_position)
        \cup (IF rook_move(self, from_position, to_position)
              THEN {}
              ELSE bishop_move_calls(self, from_position, to_position))

\* the calls of clear_path made by valid_move(from_position, to_position)
valid_move_calls(self, from_position, to_position) ==
    LET from_sq == position_index(from_position)
        to_sq == position_index(to_position)
    IN  IF from_sq = <<>> \/ to_sq = <<>>
        THEN {}
        ELSE
          LET piece == self.board[from_sq[1]][from_sq[2]]
              target == self.board[to_sq[1]][to_sq[2]]
              piece_type == upper(piece)
          IN  IF piece = "."
              THEN {}
              ELSE IF \/ (self.turn = "white" /\ islower(piece))
                      \/ (self.turn = "black" /\ isupper(piece))
              THEN {}
              ELSE IF \/ (self.turn = "white" /\ isupper(target))
                      \/ (self.turn = "black" /\ islower(target))
              THEN {}
              ELSE CASE piece_type = "R" -> rook_move_calls(self, from_position, to_position)
                     [] piece_type = "B" -> bishop_move_calls(self, from_position, to_position)
                     [] piece_type = "Q" -> queen_move_calls(self, from_position, to_position)
                     [] OTHER -> {}

----------------------------------------------------------------------------
(* move_piece and explode_capture: each returns the object after the call  *)

\* move_piece as it would be if the square the piece leaves were not emptied
move_piece_keeps_source(self, from_position, to_position) ==
    LET from_row == position_index(from_position)[1]
        from_col == position_index(from_position)[2]
        to_row == position_index(to_position)[1]
        to_col == position_index(to_position)[2]
    IN  [self EXCEPT !.board[to_row][to_col] = self.board[from_row][from_col]]

move_piece(self, from_position, to_position) ==
    LET from_row == position_index(from_position)[1]
        from_col == position_index(from_position)[2]
        to_row == position_index(to_position)[1]
        to_col == position_index(to_position)[2]
        placed == [self.board EXCEPT ![to_row][to_col] = self.board[from_row][from_col]]
    IN  [self EXCEPT !.board = [placed EXCEPT ![from_row][from_col] = "."]]

\* the pairs (dr, dc) in the order of the two nested loops
explode_offsets ==
    <<  <<-1, -1>>, <<-1, 0>>, <<-1, 1>>,
        <<0, -1>>,  <<0, 0>>,  <<0, 1>>,
        <<1, -1>>,  <<1, 0>>,  <<1, 1>> >>

\* explode_step as it would be if the blast spared the pawns around the centre
explode_step_spares_pawns(self, row, col, i) ==
    LET r == row + explode_offsets[i][1]
        c == col + explode_offsets[i][2]
    IN  IF 0 <= r /\ r < 8 /\ 0 <= c /\ c < 8
        THEN LET piece == self.board[r][c]
             IN  IF piece # "." /\ ~(upper(piece) = "P" /\ <<r, c>> # <<row, col>>)
                 THEN [self EXCEPT
                         !.current_game_state =
                             IF upper(piece) = "K"
                             THEN (IF islower(piece) THEN "BLACK_WON" ELSE "WHITE_WON")
                             ELSE @,
                         !.board = [@ EXCEPT ![r][c] = "."]]
                 ELSE self
        ELSE self

\* one pass of the loop body, for the i-th pair
explode_step(self, row, col, i) ==
    LET r == row + explode_offsets[i][1]
        c == col + explode_offsets[i][2]
    IN  IF 0 <= r /\ r < 8 /\ 0 <= c /\ c < 8
        THEN LET piece == self.board[r][c]
             IN  IF piece # "."
                 THEN [self EXCEPT
                         !.current_game_state =
                             IF upper(piece) = "K"
                             THEN (IF islower(piece) THEN "BLACK_WON" ELSE "WHITE_WON")
                             ELSE @,
                         !.board = [@ EXCEPT ![r][c] = "."]]
                 ELSE self
        ELSE self

RECURSIVE explode_loop(_, _, _, _)
explode_loop(self, row, col, i) ==
    IF i > Len(explode_offsets)
    THEN self
    ELSE explode_loop(explode_step(self, row, col, i), row, col, i + 1)

explode_capture(self, position) ==
    LET row == position_index(position)[1]
        col == position_index(position)[2]
    IN  explode_loop(self, row, col, 1)

----------------------------------------------------------------------------
(* make_move: the object after the call and the value returned             *)

\* any(ch in row for row in self._board)
any_in_row(self, ch) == \E r \in Rows : \E c \in Cols : self.board[r][c] = ch

\* capture_or_promote as it would be without the promotion of lines 210-213
capture_or_promote_without_promotion(self, moving_piece, target_piece, to_position) ==
    IF target_piece # "."
    THEN explode_capture(self, to_position)
    ELSE self

\* capture_or_promote as it would be if a pawn were promoted after a capture too
capture_or_promote_always_promotes(self, moving_piece, target_piece, to_position) ==
    LET to_row == position_index(to_position)[1]
        to_col == position_index(to_position)[2]
        exploded == IF target_piece # "."
                    THEN explode_capture(self, to_position)
                    ELSE self
    IN  IF /\ upper(moving_piece) = "P"
           /\ \/ (isupper(moving_piece) /\ to_row = 0)
              \/ (islower(moving_piece) /\ to_row = 7)
        THEN [exploded EXCEPT !.board[to_row][to_col] =
                                  IF isupper(moving_piece) THEN "Q" ELSE "q"]
        ELSE exploded

\* capture_or_promote as it would be if the promoted pawn became a King
capture_or_promote_to_king(self, moving_piece, target_piece, to_position) ==
    LET to_row == position_index(to_position)[1]
        to_col == position_index(to_position)[2]
    IN  IF target_piece # "."
        THEN explode_capture(self, to_position)
        ELSE IF /\ upper(moving_piece) = "P"
                /\ \/ (isupper(moving_piece) /\ to_row = 0)
                   \/ (islower(moving_piece) /\ to_row = 7)
        THEN [self EXCEPT !.board[to_row][to_col] =
                              IF isupper(moving_piece) THEN "K" ELSE "k"]
        ELSE self

\* lines 206-213: the explosion, or else the promotion
capture_or_promote(self, moving_piece, target_piece, to_position) ==
    LET to_row == position_index(to_position)[1]
        to_col == position_index(to_position)[2]
    IN  IF target_piece # "."
        THEN explode_capture(self, to_position)
        ELSE IF /\ upper(moving_piece) = "P"
                /\ \/ (isupper(moving_piece) /\ to_row = 0)
                   \/ (islower(moving_piece) /\ to_row = 7)
        THEN [self EXCEPT !.board[to_row][to_col] =
                              IF isupper(moving_piece) THEN "Q" ELSE "q"]
        ELSE self

\* check_win as it would be if the Black King were looked for first
check_win_black_king_first(self) ==
    IF ~any_in_row(self, "k")
    THEN [self EXCEPT !.current_game_state = "WHITE_WON"]
    ELSE IF ~any_in_row(self, "K")
    THEN [self EXCEPT !.current_game_state = "BLACK_WON"]
    ELSE self

\* check_win as it would be if a game state set by the explosion were kept
check_win_keeps_explosion_state(self) ==
    IF self.current_game_state # "UNFINISHED"
    THEN self
    ELSE IF ~any_in_row(self, "K")
    THEN [self EXCEPT !.current_game_state = "BLACK_WON"]
    ELSE IF ~any_in_row(self, "k")
    THEN [self EXCEPT !.current_game_state = "WHITE_WON"]
    ELSE self

\* lines 215-219: the win condition
check_win(self) ==
    IF ~any_in_row(self, "K")
    THEN [self EXCEPT !.current_game_state = "BLACK_WON"]
    ELSE IF ~any_in_row(self, "k")
    THEN [self EXCEPT !.current_game_state = "WHITE_WON"]
    ELSE self

\* switch_turn as it would be if the turn passed after every move
switch_turn_always(self) ==
    [self EXCEPT !.turn = IF self.turn = "white" THEN "black" ELSE "white"]

\* lines 221-222: the turn
switch_turn(self) ==
    IF self.current_game_state = "UNFINISHED"
    THEN [self EXCEPT !.turn = IF self.turn = "white" THEN "black" ELSE "white"]
    ELSE self

\* the moves of a call that passed the two checks (lines 199-224)
execute_move(self, from_position, to_position) ==
    LET from_row == position_index(from_position)[1]
        from_col == position_index(from_position)[2]
        to_row == position_index(to_position)[1]
        to_col == position_index(to_position)[2]
        target_piece == self.board[to_row][to_col]
        moving_piece == self.board[from_row][from_col]
        after_move == move_piece(self, from_position, to_position)
        after_capture ==
            capture_or_promote(after_move, moving_piece, target_piece, to_position)
    IN  [self |-> switch_turn(check_win(after_capture)), ret |-> "True"]

\* make_move as it would be if the piece were relocated before the move is validated
make_move_moves_first(self, from_position, to_position) ==
    IF self.current_game_state # "UNFINISHED"
    THEN [self |-> self, ret |-> "False"]
    ELSE IF position_index_raises(from_position)
            \/ position_index_raises(to_position)
    THEN [self |-> self, ret |-> "ValueError"]
    ELSE IF position_index(from_position) = <<>> \/ position_index(to_position) = <<>>
    THEN [self |-> self, ret |-> "False"]
    ELSE IF ~valid_move(self, from_position, to_position)
    THEN [self |-> move_piece(self, from_position, to_position), ret |-> "False"]
    ELSE execute_move(self, from_position, to_position)

\* make_move as it would be without the game-over check of lines 191-193
make_move_after_end(self, from_position, to_position) ==
    IF position_index_raises(from_position)
       \/ position_index_raises(to_position)
    THEN [self |-> self, ret |-> "ValueError"]
    ELSE IF ~valid_move(self, from_position, to_position)
    THEN [self |-> self, ret |-> "False"]
    ELSE execute_move(self, from_position, to_position)

make_move(self, from_position, to_position) ==
    IF self.current_game_state # "UNFINISHED"
    THEN [self |-> self, ret |-> "False"]
    ELSE IF position_index_raises(from_position)
            \/ position_index_raises(to_position)
    THEN [self |-> self, ret |-> "ValueError"]
    ELSE IF ~valid_move(self, from_position, to_position)
    THEN [self |-> self, ret |-> "False"]
    ELSE execute_move(self, from_position, to_position)

----------------------------------------------------------------------------
(* The game as a state machine                                             *)

Self == [board |-> board, turn |-> turn, current_game_state |-> current_game_state]

\* algebraic name of a square: column letter 'a' + col, rank digit 8 - row
algebraic(row, col) == <<columns[col + 1], AsciiDigits[(8 - row) + 1]>>

\* strings that name no square, or name one in an unusual way; the first
\* MaxOdd of them are typed during play
OddStrings ==
    <<  <<"f", "U+0663">>, <<"e", "U+00B2">>, <<"i", "1">>, <<"e", "9">>,
        <<"e">>, <<"e", "0">>, <<"e", "2", "x">>, <<>>, <<"E", "2">>, <<"2", "e">> >>

MaxOdd == 4

OddInputs == { OddStrings[i] : i \in 1..MaxOdd }

\* the squares the two players name in a game around the kings
PlaySquares ==
    { <<"c", "1">>, <<"c", "5">>, <<"c", "6">>, <<"d", "1">>, <<"e", "2">>, <<"e", "4">>,
      <<"e", "5">>, <<"e", "7">>, <<"e", "8">>, <<"f", "3">>, <<"f", "6">>, <<"g", "1">> }

\* the squares they name in a game on the queen side that promotes a pawn
PromotionSquares ==
    { <<"b", "2">>, <<"b", "4">>, <<"b", "5">>, <<"b", "6">>, <<"b", "7">>, <<"b", "8">>,
      <<"c", "1">>, <<"c", "6">>, <<"c", "8">>, <<"d", "4">> }

\* the squares they name in a game in which Black promotes a pawn
BlackPromotionSquares ==
    { <<"a", "4">>, <<"a", "5">>, <<"b", "6">>, <<"c", "2">>, <<"c", "8">>, <<"d", "1">>,
      <<"d", "2">>, <<"d", "3">>, <<"d", "4">>, <<"d", "5">>, <<"d", "7">> }

\* __init__
Init ==
    /\ board = initialize_board
    /\ turn = "white"
    /\ current_game_state = "UNFINISHED"
    /\ ret = "None"
    /\ old = Self
    /\ moved = <<>>

MakeMove(from_position, to_position) ==
    \E result \in {make_move(Self, from_position, to_position)} :
        /\ board' = result.self.board
        /\ turn' = result.self.turn
        /\ current_game_state' = result.self.current_game_state
        /\ ret' = result.ret
        /\ old' = Self
        /\ moved' = IF result.ret = "True"
                    THEN <<from_position, to_position>>
                    ELSE <<>>

AllSquares == { algebraic(r, c) : r \in Rows, c \in Cols }

Inputs == PlaySquares \cup OddInputs

Next == \E from_position \in Inputs : \E to_position \in Inputs :
            MakeMove(from_position, to_position)

Spec == Init /\ [][Next]_vars

NextPromotion == \E from_position \in PromotionSquares : \E to_position \in PromotionSquares :
                     MakeMove(from_position, to_position)

SpecPromotion == Init /\ [][NextPromotion]_vars

NextBlackPromotion ==
    \E from_position \in BlackPromotionSquares : \E to_position \in BlackPromotionSquares :
        MakeMove(from_position, to_position)

SpecBlackPromotion == Init /\ [][NextBlackPromotion]_vars

----------------------------------------------------------------------------
(* Properties                                                              *)

\* the squares of the last successful call, as (row, col) pairs
MovedFrom == position_index(moved[1])
MovedTo == position_index(moved[2])
Succeeded == ret = "True"
Unchanged ==
    /\ board = old.board
    /\ turn = old.turn
    /\ current_game_state = old.current_game_state

KingCount(b, k) == Cardinality({ <<r, c>> \in Rows \X Cols : b[r][c] = k })

\* C1: a call of make_move that fails (it returns False on a string that names
\* no square, on an illegal move and when the game is over; it raises on a
\* rank character int() rejects) leaves the board, the turn and the game
\* state exactly as they were when it was called.
C1_FailedMoveChangesNothing ==
    ret \in {"False", "ValueError"} => Unchanged

\* a move was rejected in a game in progress, after the board had changed
C1_Witness ==
    /\ ret = "False"
    /\ old.current_game_state = "UNFINISHED"
    /\ board # initialize_board

\* C2: after a successful make_move that leaves the game UNFINISHED the turn
\* is the other colour; after one that ends the game the turn is the same.
C2_TurnAlternation ==
    Succeeded =>
        /\ current_game_state = "UNFINISHED" =>
                /\ turn # old.turn
                /\ turn \in {"white", "black"}
        /\ current_game_state \in {"WHITE_WON", "BLACK_WON"} => turn = old.turn

\* a successful move ended the game
C2_Witness ==
    /\ Succeeded
    /\ current_game_state \in {"WHITE_WON", "BLACK_WON"}
    /\ old.current_game_state = "UNFINISHED"

\* C3: a call of make_move made when the game state is WHITE_WON or BLACK_WON
\* returns False, whatever its arguments, and changes nothing; so a finished
\* game never changes again.
C3_TerminalAbsorbing ==
    old.current_game_state \in {"WHITE_WON", "BLACK_WON"} =>
        /\ ret = "False"
        /\ Unchanged

\* a call was made after the game had ended
C3_Witness ==
    /\ old.current_game_state \in {"WHITE_WON", "BLACK_WON"}
    /\ ret # "None"

\* C4: in every state reached from the standard start the game state agrees
\* with the Kings on the board: BLACK_WON iff there is no White King (also
\* when there is no Black King either, and whoever moved), WHITE_WON iff
\* there is a White King and no Black King, UNFINISHED iff both are there.
C4_StateAgreesWithKings ==
    /\ current_game_state \in {"UNFINISHED", "WHITE_WON", "BLACK_WON"}
    /\ current_game_state = "BLACK_WON" <=> KingCount(board, "K") = 0
    /\ current_game_state = "WHITE_WON" <=>
            (KingCount(board, "K") > 0 /\ KingCount(board, "k") = 0)
    /\ current_game_state = "UNFINISHED" <=>
            (KingCount(board, "K") > 0 /\ KingCount(board, "k") > 0)

\* White moved and both Kings are gone
C4_Witness ==
    /\ Succeeded
    /\ old.turn = "white"
    /\ KingCount(board, "K") = 0
    /\ KingCount(board, "k") = 0

\* the squares of the 3x3 neighbourhood of a square that are on the board
Neighbourhood(sq) ==
    { <<r, c>> \in Rows \X Cols : abs(r - sq[1]) <= 1 /\ abs(c - sq[2]) <= 1 }

Captured == Succeeded /\ old.board[MovedTo[1]][MovedTo[2]] # "."

\* C5: after a successful make_move(from, to) onto a square that held a piece,
\* every square of the 3x3 neighbourhood of 'to' that is on the board is
\* empty ('to' included, whatever the pieces were), 'from' is empty, and
\* every other square holds what it held before the call.
C5_ExplosionFrame ==
    Captured =>
        \A r \in Rows : \A c \in Cols :
            board[r][c] =
                IF <<r, c>> \in Neighbourhood(MovedTo) \/ <<r, c>> = MovedFrom
                THEN "."
                ELSE old.board[r][c]

\* a capture whose blast removed a pawn and another piece that stood next to
\* the target, while a piece two squares from the target stayed
C5_Witness ==
    /\ Captured
    /\ \E sq \in Neighbourhood(MovedTo) \ {MovedTo, MovedFrom} :
            old.board[sq[1]][sq[2]] \in {"P", "p"}
    /\ \E sq \in Neighbourhood(MovedTo) \ {MovedTo, MovedFrom} :
            old.board[sq[1]][sq[2]] \notin {"P", "p", "."}
    /\ \E r \in Rows : \E c \in Cols :
            /\ abs(r - MovedTo[1]) = 2 \/ abs(c - MovedTo[2]) = 2
            /\ abs(r - MovedTo[1]) <= 2 /\ abs(c - MovedTo[2]) <= 2
            /\ <<r, c>> # MovedFrom
            /\ board[r][c] # "."

\* the piece the last successful call moved, and the farthest rank of a pawn
MovedPiece == old.board[MovedFrom[1]][MovedFrom[2]]
FarthestRank(pawn) == IF pawn = "P" THEN 0 ELSE 7
PawnReachedFarthestRank ==
    /\ Succeeded
    /\ MovedPiece \in {"P", "p"}
    /\ MovedTo[1] = FarthestRank(MovedPiece)

\* C6: after a successful move of a pawn onto its farthest rank (row 0 for
\* White, row 7 for Black) the target square holds a Queen of the pawn's
\* colour if the target was empty before the move, and is empty if the move
\* was a capture.
C6_Promotion ==
    PawnReachedFarthestRank =>
        board[MovedTo[1]][MovedTo[2]] =
            IF old.board[MovedTo[1]][MovedTo[2]] = "."
            THEN (IF MovedPiece = "P" THEN "Q" ELSE "q")
            ELSE "."

\* a pawn stepped onto an empty square of its farthest rank
C6_Witness ==
    /\ PawnReachedFarthestRank
    /\ old.board[MovedTo[1]][MovedTo[2]] = "."

\* a black pawn stepped onto an empty square of row 7
C6_WitnessBlack ==
    /\ PawnReachedFarthestRank
    /\ MovedPiece = "p"
    /\ old.board[MovedTo[1]][MovedTo[2]] = "."

\* a pawn captured onto its farthest rank
C6_WitnessCapture ==
    /\ PawnReachedFarthestRank
    /\ old.board[MovedTo[1]][MovedTo[2]] # "."

\* C7: in every state reached from the standard start the board holds at
\* most one White King and at most one Black King.
C7_AtMostOneKingEach ==
    /\ KingCount(board, "K") <= 1
    /\ KingCount(board, "k") <= 1

\* a pawn was promoted and each colour still has exactly one King
C7_Witness ==
    /\ PawnReachedFarthestRank
    /\ board[MovedTo[1]][MovedTo[2]] \in {"Q", "q"}
    /\ KingCount(board, "K") = 1
    /\ KingCount(board, "k") = 1

\* the colour of a cell
OwnPiece(t, x) == IF t = "white" THEN isupper(x) ELSE islower(x)
OpposingPiece(t, x) == IF t = "white" THEN islower(x) ELSE isupper(x)

\* C8: make_move succeeds only if both strings name squares of the board, the
\* 'from' square holds a piece of the colour whose turn it is, and the 'to'
\* square holds no piece of that colour (it may hold the opposing King).
C8_LegalityGate ==
    Succeeded =>
        /\ MovedFrom \in Rows \X Cols
        /\ MovedTo \in Rows \X Cols
        /\ OwnPiece(old.turn, MovedPiece)
        /\ ~OwnPiece(old.turn, old.board[MovedTo[1]][MovedTo[2]])

\* a piece moved onto the square of the opposing King
C8_Witness ==
    /\ Succeeded
    /\ OwnPiece(old.turn, MovedPiece)
    /\ old.board[MovedTo[1]][MovedTo[2]] = (IF old.turn = "white" THEN "k" ELSE "K")

\* the squares that hold a given kind of piece of the side to move
SquaresOfSideToMove(kinds) ==
    { sq \in Rows \X Cols :
        /\ OwnPiece(turn, board[sq[1]][sq[2]])
        /\ upper(board[sq[1]][sq[2]]) \in kinds }

Forward(t) == IF t = "white" THEN -1 ELSE 1
StartRow(t) == IF t = "white" THEN 6 ELSE 1

\* the pawn rule: (a) one square straight forward onto an empty square, (b) two
\* squares straight forward from the starting row over an empty square onto an
\* empty square, (c) one square diagonally forward onto an opposing piece
PawnRule(from, to) ==
    \/ /\ to[2] = from[2]
       /\ to[1] = from[1] + Forward(turn)
       /\ board[to[1]][to[2]] = "."
    \/ /\ to[2] = from[2]
       /\ from[1] = StartRow(turn)
       /\ to[1] = from[1] + 2 * Forward(turn)
       /\ board[from[1] + Forward(turn)][from[2]] = "."
       /\ board[to[1]][to[2]] = "."
    \/ /\ abs(to[2] - from[2]) = 1
       /\ to[1] = from[1] + Forward(turn)
       /\ OpposingPiece(turn, board[to[1]][to[2]])

\* C9: on every board a game reaches, for every pawn of the side to move and
\* every square of the board, valid_move accepts the move exactly when the
\* pawn rule allows it.
C9_PawnRule ==
    \A from \in SquaresOfSideToMove({"P"}) : \A to \in Rows \X Cols :
        valid_move(Self, algebraic(from[1], from[2]), algebraic(to[1], to[2]))
            <=> PawnRule(from, to)

\* the side to move has a pawn on its starting row with a piece right in front
\* of it and an empty square behind that piece, a pawn that can capture
\* diagonally, and a pawn with an empty square diagonally in front of it
C9_Witness ==
    /\ \E from \in SquaresOfSideToMove({"P"}) :
            /\ from[1] = StartRow(turn)
            /\ board[from[1] + Forward(turn)][from[2]] # "."
            /\ board[from[1] + 2 * Forward(turn)][from[2]] = "."
    /\ \E from \in SquaresOfSideToMove({"P"}) : \E to \in Rows \X Cols :
            /\ abs(to[2] - from[2]) = 1
            /\ to[1] = from[1] + Forward(turn)
            /\ OpposingPiece(turn, board[to[1]][to[2]])
    /\ \E from \in SquaresOfSideToMove({"P"}) : \E to \in Rows \X Cols :
            /\ abs(to[2] - from[2]) = 1
            /\ to[1] = from[1] + Forward(turn)
            /\ board[to[1]][to[2]] = "."

\* the squares strictly between two squares of a common row, column or diagonal
sign(n) == IF n > 0 THEN 1 ELSE (IF n < 0 THEN -1 ELSE 0)
Distance(from, to) ==
    IF abs(to[1] - from[1]) > abs(to[2] - from[2])
    THEN abs(to[1] - from[1])
    ELSE abs(to[2] - from[2])
Between(from, to) ==
    { <<from[1] + k * sign(to[1] - from[1]), from[2] + k * sign(to[2] - from[2])>> :
        k \in 1..(Distance(from, to) - 1) }

SameLine(from, to) == from[1] = to[1] \/ from[2] = to[2]
SameDiagonal(from, to) == abs(to[1] - from[1]) = abs(to[2] - from[2])

Aligned(kind, from, to) ==
    CASE kind = "R" -> SameLine(from, to)
      [] kind = "B" -> SameDiagonal(from, to)
      [] kind = "Q" -> SameLine(from, to) \/ SameDiagonal(from, to)

\* C10: on every board a game reaches, for every Rook, Bishop or Queen of the
\* side to move and every other square, valid_move accepts the move exactly when the target
\* holds no piece of the mover's colour, the two squares share a row or column
\* (Rook), a diagonal (Bishop) or either (Queen), and every square strictly
\* between them is empty; so no sliding piece jumps, adjacent squares need no
\* empty square, and what stands on the two end squares does not block.
C10_SlidersNeverJump ==
    \A from \in SquaresOfSideToMove({"R", "B", "Q"}) : \A to \in (Rows \X Cols) \ {from} :
        valid_move(Self, algebraic(from[1], from[2]), algebraic(to[1], to[2]))
            <=> /\ ~OwnPiece(turn, board[to[1]][to[2]])
                /\ Aligned(upper(board[from[1]][from[2]]), from, to)
                /\ \A sq \in Between(from, to) : board[sq[1]][sq[2]] = "."

\* a Rook, Bishop or Queen crossed at least one square and captured, and the
\* side to move has a sliding piece with an empty square behind a blocker
C10_Witness ==
    /\ Captured
    /\ upper(MovedPiece) \in {"R", "B", "Q"}
    /\ Between(MovedFrom, MovedTo) # {}
    /\ \E from \in SquaresOfSideToMove({"R", "B", "Q"}) : \E to \in (Rows \X Cols) \ {from} :
            /\ Aligned(upper(board[from[1]][from[2]]), from, to)
            /\ board[to[1]][to[2]] = "."
            /\ \E sq \in Between(from, to) : board[sq[1]][sq[2]] # "."

\* the Knight's displacement: two squares one way and one square the other
KnightShape(from, to) ==
    \/ abs(to[1] - from[1]) = 1 /\ abs(to[2] - from[2]) = 2
    \/ abs(to[1] - from[1]) = 2 /\ abs(to[2] - from[2]) = 1

\* the square next to 'from' on the long leg of a Knight's move
KnightLeg(from, to) ==
    IF abs(to[1] - from[1]) = 2
    THEN <<(from[1] + to[1]) \div 2, from[2]>>
    ELSE <<from[1], (from[2] + to[2]) \div 2>>

\* C11: on every board a game reaches, for every Knight of the side to move
\* and every square of the board, valid_move accepts the move exactly when
\* the displacement is (1,2) or (2,1) and the target holds no piece of the
\* Knight's colour, whatever stands on the other squares; and a Knight that
\* make_move has moved has made such a displacement.
C11_KnightRule ==
    /\ \A from \in SquaresOfSideToMove({"N"}) : \A to \in Rows \X Cols :
            valid_move(Self, algebraic(from[1], from[2]), algebraic(to[1], to[2]))
                <=> /\ KnightShape(from, to)
                    /\ ~OwnPiece(turn, board[to[1]][to[2]])
    /\ (Succeeded /\ upper(MovedPiece) = "N") => KnightShape(MovedFrom, MovedTo)

\* a Knight moved over an occupied square, and the side to move has a Knight
\* with an own piece on one square of its shape and an empty one on another
C11_Witness ==
    /\ Succeeded
    /\ upper(MovedPiece) = "N"
    /\ old.board[KnightLeg(MovedFrom, MovedTo)[1]][KnightLeg(MovedFrom, MovedTo)[2]] # "."
    /\ \E from \in SquaresOfSideToMove({"N"}) :
            /\ \E to \in Rows \X Cols :
                    KnightShape(from, to) /\ OwnPiece(turn, board[to[1]][to[2]])
            /\ \E to \in Rows \X Cols :
                    KnightShape(from, to) /\ board[to[1]][to[2]] = "."

\* a string that is one letter a-h followed by one ASCII digit 1-8
WellFormed(position) ==
    /\ Len(position) = 2
    /\ position[1] \in {"a", "b", "c", "d", "e", "f", "g", "h"}
    /\ position[2] \in {"1", "2", "3", "4", "5", "6", "7", "8"}

\* the strings position_index is tried on: the names of the 64 squares and
\* the strings of OddStrings
ParsedStrings == AllSquares \cup { OddStrings[i] : i \in 1..Len(OddStrings) }

\* position_index returns the square (row, col)
ParsesTo(position, sq) ==
    /\ ~position_index_raises(position)
    /\ position_index(position) = sq

\* the algebraic name of every square parses back to that square
RoundTrip ==
    \A r \in Rows : \A c \in Cols : ParsesTo(algebraic(r, c), <<r, c>>)

\* C12: the algebraic name of every square (row, col) of the board parses
\* back to (row, col), and position_index returns no square for every string
\* that is not one letter a-h followed by one ASCII digit 1-8 (wrong length,
\* other letter, digit 0 or 9, digit character outside ASCII); so no call of
\* make_move raises and no successful call was made with such a string.
C12_ParseRoundTripAndRejection ==
    /\ RoundTrip
    /\ \A position \in ParsedStrings :
            ~WellFormed(position) => ParsesTo(position, <<>>)
    /\ ret # "ValueError"
    /\ Succeeded => WellFormed(moved[1]) /\ WellFormed(moved[2])

\* C12, the part that holds: the round trip, and no square for every string
\* that is not a letter a-h followed by a digit character, or whose digit is
\* 0 or 9
C12_RoundTripAndAsciiRejection ==
    /\ RoundTrip
    /\ \A position \in ParsedStrings :
            (~WellFormed(position) /\ (Len(position) = 2 => position[2] \notin {"U+00B2", "U+0663"}))
                => ParsesTo(position, <<>>)

\* C12: a call of make_move raised ValueError in int()
C12_Raised == ret = "ValueError"

\* C12: a piece was moved by a call that named its square with a digit
\* character outside ASCII
C12_MovedByOddString == Succeeded /\ ~WellFormed(moved[1])

\* the object as explode_capture left it in the last successful capturing
\* call, before the win condition of lines 215-219 was looked at
AfterExplosion ==
    explode_capture(move_piece(old, moved[1], moved[2]), moved[2])

\* the explosion of the last capturing call removed the King k
ExplosionRemoved(k) ==
    /\ Captured
    /\ \E sq \in Neighbourhood(MovedTo) :
            move_piece(old, moved[1], moved[2]).board[sq[1]][sq[2]] = k

\* C13: whenever explode_capture removes one King from the 3x3 neighbourhood
\* of the centre, the game state it sets is the win of the other colour:
\* WHITE_WON for a removed Black King, BLACK_WON for a removed White King.
C13_ExplosionNamesRightWinner ==
    /\ (ExplosionRemoved("k") /\ ~ExplosionRemoved("K")) =>
            AfterExplosion.current_game_state = "WHITE_WON"
    /\ (ExplosionRemoved("K") /\ ~ExplosionRemoved("k")) =>
            AfterExplosion.current_game_state = "BLACK_WON"

\* C13, what the code does: explode_capture names the colour of the King it
\* removed, and make_move then sets the state from the Kings left on the board
C13_ExplosionNamesRemovedKing ==
    /\ (ExplosionRemoved("k") /\ ~ExplosionRemoved("K")) =>
            /\ AfterExplosion.current_game_state = "BLACK_WON"
            /\ current_game_state = "WHITE_WON"
    /\ (ExplosionRemoved("K") /\ ~ExplosionRemoved("k")) =>
            /\ AfterExplosion.current_game_state = "WHITE_WON"
            /\ current_game_state = "BLACK_WON"

\* C13: an explosion removed the Black King alone, and one the White King alone
C13_BlackKingExploded == ExplosionRemoved("k") /\ ~ExplosionRemoved("K")
C13_WhiteKingExploded == ExplosionRemoved("K") /\ ~ExplosionRemoved("k")

\* neither King stands on the board b
BothKingsAbsent(b) == KingCount(b, "K") = 0 /\ KingCount(b, "k") = 0

\* C14, as claimed: no sequence of make_move calls from the standard start
\* reaches a board on which neither a White King nor a Black King stands.
C14_BothKingsAbsentUnreachable == ~BothKingsAbsent(board)

\* the square of King k on the board b stood in the blast of the last capture:
\* in the 3x3 neighbourhood of 'to', or on 'from' (the King itself captured)
KingInBlast(b, k) ==
    \E sq \in Neighbourhood(MovedTo) \cup {MovedFrom} : b[sq[1]][sq[2]] = k

\* C14, amended: a board without any King is reached only by one capturing
\* make_move whose explosion removes both Kings at once (before the call both
\* stood on the board, each next to the target or being the capturer); the
\* game is then BLACK_WON, whoever moved, and every later call fails and
\* changes nothing.
C14_BothKingsAbsentOnlyByOneExplosion ==
    BothKingsAbsent(board) =>
        /\ current_game_state = "BLACK_WON"
        /\ \/ /\ Captured
              /\ KingCount(old.board, "K") = 1 /\ KingCount(old.board, "k") = 1
              /\ KingInBlast(old.board, "K") /\ KingInBlast(old.board, "k")
           \/ /\ ret = "False"
              /\ Unchanged
              /\ old.current_game_state = "BLACK_WON"

\* Black captured and the explosion removed both Kings
C14_Witness ==
    /\ BothKingsAbsent(board)
    /\ Captured
    /\ old.turn = "black"

\* a call was made after both Kings were gone
C14_WitnessLaterCall ==
    /\ BothKingsAbsent(board)
    /\ BothKingsAbsent(old.board)
    /\ ret = "False"

\* valid_move rejects the move and make_move returns False and changes nothing
Rejected(from_position, to_position) ==
    /\ ~valid_move(Self, from_position, to_position)
    /\ make_move(Self, from_position, to_position) = [self |-> Self, ret |-> "False"]

\* C15: in every state and for every square s, whatever stands on it,
\* valid_move(s, s) is false and make_move(s, s) returns False and changes
\* nothing, also when the two strings name s differently; so no successful
\* call has moved a piece onto its own square.
C15_NoNullMove ==
    /\ \A sq \in Rows \X Cols : Rejected(algebraic(sq[1], sq[2]), algebraic(sq[1], sq[2]))
    /\ \A odd \in OddInputs :
            (~position_index_raises(odd) /\ position_index(odd) # <<>>) =>
                /\ Rejected(odd, odd)
                /\ Rejected(odd, algebraic(position_index(odd)[1], position_index(odd)[2]))
                /\ Rejected(algebraic(position_index(odd)[1], position_index(odd)[2]), odd)
    /\ Succeeded => MovedFrom # MovedTo

\* the geometry rule of the piece on square sq accepts the move from sq to sq
GeometryAcceptsNullMove(sq) ==
    LET position == algebraic(sq[1], sq[2])
        piece_type == upper(board[sq[1]][sq[2]])
    IN  CASE piece_type = "K" -> king_move(Self, position, position)
          [] piece_type = "R" -> rook_move(Self, position, position)
          [] piece_type = "B" -> bishop_move(Self, position, position)
          [] piece_type = "Q" -> queen_move(Self, position, position)
          [] OTHER -> FALSE

\* a call was rejected in a game in progress in which the side to move has a
\* King, a Rook, a Bishop and a Queen, and the geometry rule of each accepts
\* the move onto its own square
C15_Witness ==
    /\ ret = "False"
    /\ current_game_state = "UNFINISHED"
    /\ board # initialize_board
    /\ \A kind \in {"K", "R", "B", "Q"} :
            \E sq \in SquaresOfSideToMove({kind}) : GeometryAcceptsNullMove(sq)

\* the two end rows of the board
EndRows == {0, 7}

\* C16: in every state reached from the standard start no White or Black
\* Pawn stands on row 0 or on row 7.
C16_NoPawnOnEndRow ==
    \A r \in EndRows : \A c \in Cols : board[r][c] \notin {"P", "p"}

\* a pawn has just moved onto its farthest rank, where it was promoted or
\* exploded
C16_Witness ==
    /\ PawnReachedFarthestRank
    /\ MovedTo[1] \in EndRows
    /\ board[MovedTo[1]][MovedTo[2]] \in {"Q", "q", "."}

\* a call clear_path(from_position, to_position) is safe on the current board:
\* the two squares share a row, a column or a diagonal, and the walk reads at
\* most 6 squares, each on the board and strictly between the two
PathWalkSafe(from_position, to_position) ==
    LET from == position_index(from_position)
        to == position_index(to_position)
        reads == clear_path_reads(Self, from_position, to_position)
    IN  /\ SameLine(from, to) \/ SameDiagonal(from, to)
        /\ Len(reads) <= 6
        /\ \A i \in 1..Len(reads) :
                /\ reads[i] \in Rows \X Cols
                /\ reads[i] \in Between(from, to)

\* C17: in every state, every call of clear_path that valid_move makes for a
\* Rook, Bishop or Queen of the side to move (no other piece calls it) and
\* any square of the board has its endpoints on a common row, column or
\* diagonal; its walk reads at most 6 squares, all on the board and strictly
\* between the endpoints, and so ends at 'to'.
C17_PathWalkSafe ==
    \A from \in SquaresOfSideToMove({"R", "B", "Q"}) : \A to \in Rows \X Cols :
        \A call \in valid_move_calls(Self, algebraic(from[1], from[2]), algebraic(to[1], to[2])) :
            PathWalkSafe(call[1], call[2])

\* the calls of clear_path that valid_move makes for the piece on a square
CallsFrom(from) ==
    UNION { valid_move_calls(Self, algebraic(from[1], from[2]), algebraic(to[1], to[2])) :
                to \in Rows \X Cols }

\* the side to move has a Rook, Bishop or Queen for which valid_move makes a
\* call of clear_path that reads six squares, and a Queen for which it makes
\* a call along a row or column, a call along a diagonal, and a call that
\* stops at a piece before it reaches 'to'
C17_Witness ==
    /\ \E from \in SquaresOfSideToMove({"R", "B", "Q"}) : \E call \in CallsFrom(from) :
            Len(clear_path_reads(Self, call[1], call[2])) = 6
    /\ \E from \in SquaresOfSideToMove({"Q"}) :
            /\ \E call \in CallsFrom(from) :
                    SameLine(position_index(call[1]), position_index(call[2]))
                        /\ Len(clear_path_reads(Self, call[1], call[2])) >= 1
            /\ \E call \in CallsFrom(from) :
                    SameDiagonal(position_index(call[1]), position_index(call[2]))
                        /\ Len(clear_path_reads(Self, call[1], call[2])) >= 1
            /\ \E call \in CallsFrom(from) :
                    ~clear_path(Self, call[1], call[2])

\* the number of pieces of a colour on the board b, and of one kind
PieceCount(b, pieces) ==
    Cardinality({ sq \in Rows \X Cols : b[sq[1]][sq[2]] \in pieces })

\* the last successful call promoted the pawn it moved
Promoted ==
    /\ PawnReachedFarthestRank
    /\ ~Captured

\* C18: a successful non-capturing make_move leaves the number of pieces of
\* each colour as it was, and the number of each kind too, except that a
\* promotion turns one Pawn into one Queen; a successful capturing make_move
\* removes at least one piece of each colour; a failed make_move changes no
\* count; so no call increases the number of pieces of a colour.
C18_MaterialNeverGrows ==
    /\ (Succeeded /\ ~Captured) =>
            /\ PieceCount(board, WhitePieces) = PieceCount(old.board, WhitePieces)
            /\ PieceCount(board, BlackPieces) = PieceCount(old.board, BlackPieces)
            /\ \A kind \in WhitePieces \cup BlackPieces :
                    PieceCount(board, {kind}) - PieceCount(old.board, {kind}) =
                        IF Promoted /\ kind = MovedPiece THEN -1
                        ELSE IF Promoted /\ kind = (IF MovedPiece = "P" THEN "Q" ELSE "q") THEN 1
                        ELSE 0
    /\ Captured =>
            /\ PieceCount(board, WhitePieces) < PieceCount(old.board, WhitePieces)
            /\ PieceCount(board, BlackPieces) < PieceCount(old.board, BlackPieces)
    /\ ret \in {"False", "ValueError"} =>
            \A kind \in WhitePieces \cup BlackPieces :
                PieceCount(board, {kind}) = PieceCount(old.board, {kind})
    /\ PieceCount(board, WhitePieces) <= PieceCount(old.board, WhitePieces)
    /\ PieceCount(board, BlackPieces) <= PieceCount(old.board, BlackPieces)

\* a capture removed four pieces or more, after an earlier promotion had put
\* a second Queen of a colour on the board
C18_Witness ==
    /\ Captured
    /\ PieceCount(board, WhitePieces \cup BlackPieces) + 4
            <= PieceCount(old.board, WhitePieces \cup BlackPieces)
    /\ PieceCount(old.board, {"Q"}) = 2 \/ PieceCount(old.board, {"q"}) = 2

\* a pawn was promoted
C18_WitnessPromotion == Promoted

====
